---------------------------- MODULE Spec2Model ----------------------------
(***************************************************************************)
(* Model of the Digital Services Platform API (src/main.py, src/schemas.py)*)
(* : the order pricing, checkout, payment and withdrawal handlers and the  *)
(* three collections they write to.                                        *)
(*                                                                         *)
(* Numbers.  The handlers compute on Python floats.  The model computes on *)
(* exact decimals: every amount is an integer count of 1/10000 of the      *)
(* currency unit (3.99 is 39900), every tax rate an integer count of       *)
(* tenths (0.1 is 1, -2 is -20).  Amounts fed to the handlers have at most *)
(* three decimals, so (subtotal - discount) * tax_rate is exact in the     *)
(* amount unit.  Binary representation error of floats is not modelled.    *)
(*                                                                         *)
(* Optional values.  None is the empty tuple, a present value x is <<x>>.  *)
(***************************************************************************)
EXTENDS Integers, Sequences, FiniteSets, TLC

VARIABLES
    orders,       \* collection 'order': the persisted Order documents
    withdrawals,  \* collection 'withdrawal': the persisted Withdrawal documents
    logs,         \* collection 'log': the persisted Log documents
    nextId,       \* the storage collaborator's id generator
    req,          \* the request being answered: [kind, body]
    io,           \* what the storage collaborator does during this request
    disp,         \* create_withdrawal's locals status, note, scheduled_date
    resp          \* the response sent for req

vars == <<orders, withdrawals, logs, nextId, req, io, disp, resp>>

----------------------------------------------------------------------------
(* Bounds of the model *)

MaxItems == 2     \* longest cart drawn for the pricing specification
MaxQty == 2       \* largest quantity of a line item drawn
MaxWrites == 2    \* a request is accepted while fewer documents are stored

(* Program constants *)

Cent == 100       \* round(x, 2): one hundredth, in amount units
RateDen == 10     \* tax rates are counted in tenths (default tax_rate 0.1)
PayoutDays == 5   \* timedelta(days=5)

None == <<>>
Some(x) == <<x>>

----------------------------------------------------------------------------
(* schemas.py *)

Role == {"buyer", "reseller", "admin", "investor", "engineer", "high_admin", "owner"}

PaymentMethods == {"paypal", "robux", "manual"}

\* EmailStr: the addresses of the model that pydantic accepts.
WellFormedEmails == {"guest@example.com", "buyer@site.com", "reseller@site.com"}

ValidEmail(e) == e \in WellFormedEmails

\* Order(...) validates: user_email is an EmailStr, payment_method one of the
\* Literal's values.
OrderValid(order) ==
    /\ ValidEmail(order.user_email)
    /\ order.payment_method \in PaymentMethods

\* Withdrawal(...) validates: actor_email is an EmailStr, role a Role.
WithdrawalValid(w) ==
    /\ ValidEmail(w.actor_email)
    /\ w.role \in Role

----------------------------------------------------------------------------
(* database.py: the storage collaborator, createRecord(collection, record) *)

ObjectId(n) == <<"oid", n>>

\* The collection after create_document stored `doc` under a fresh id.
create_document(collection, doc, id) == Append(collection, [id |-> id] @@ doc)

StoredCount == Len(orders) + Len(withdrawals) + Len(logs)

----------------------------------------------------------------------------
(* Pricing: order_preview *)

Max(a, b) == IF a >= b THEN a ELSE b

\* round(x, 2) on an exact decimal: to the nearest hundredth, a tie to the
\* even hundredth.  \div and % round towards minus infinity.
Round2(x) ==
    LET q == x \div Cent
        r == x % Cent
    IN  IF 2 * r < Cent THEN Cent * q
        ELSE IF 2 * r > Cent THEN Cent * (q + 1)
        ELSE IF q % 2 = 0 THEN Cent * q
        ELSE Cent * (q + 1)

\* sum(i.qty * i.unit_price for i in payload.items)
RECURSIVE Subtotal(_)
Subtotal(items) ==
    IF items = <<>> THEN 0
    ELSE Head(items).qty * Head(items).unit_price + Subtotal(Tail(items))

\* (subtotal - payload.discount) * payload.tax_rate
Tax(subtotal, discount, tax_rate) == ((subtotal - discount) * tax_rate) \div RateDen

\* Mutant: the total is not clamped at 0.
order_preview_NoClamp(payload) ==
    LET subtotal == Subtotal(payload.items)
        tax == Tax(subtotal, payload.discount, payload.tax_rate)
        total == subtotal - payload.discount + tax
    IN  [ok |-> TRUE, subtotal |-> Round2(subtotal), discount |-> payload.discount,
         tax |-> Round2(tax), total |-> Round2(total)]

\* Mutant: the clamp is applied to the discounted amount, before the tax.
order_preview_ClampBeforeTax(payload) ==
    LET subtotal == Subtotal(payload.items)
        tax == Tax(subtotal, payload.discount, payload.tax_rate)
        total == Max(subtotal - payload.discount, 0) + tax
    IN  [ok |-> TRUE, subtotal |-> Round2(subtotal), discount |-> payload.discount,
         tax |-> Round2(tax), total |-> Round2(total)]

order_preview(payload) ==
    LET subtotal == Subtotal(payload.items)
        tax == Tax(subtotal, payload.discount, payload.tax_rate)
        total == Max(subtotal - payload.discount + tax, 0)
    IN  [ok |-> TRUE, subtotal |-> Round2(subtotal), discount |-> payload.discount,
         tax |-> Round2(tax), total |-> Round2(total)]

\* POST /api/orders/preview
PostOrderPreview(payload) ==
    /\ req' = [kind |-> "preview", body |-> payload]
    /\ resp' = [kind |-> "preview"] @@ order_preview(payload)
    /\ io' = [primary |-> "none", log |-> "none"]
    /\ UNCHANGED <<orders, withdrawals, logs, nextId, disp>>

----------------------------------------------------------------------------
(* Checkout *)

\* payload.x or default
OrDefault(opt, default) == IF opt = None \/ opt = Some("") THEN default ELSE opt[1]

DemoId == <<"demo", 123>>

\* f"demo_{order_id}"
ClientSecret(order_id) == <<"demo_", order_id>>

\* Mutant: a storage failure is reported to the caller, as create_withdrawal does.
checkout_fallback_Raises == [kind |-> "http_error", status_code |-> 400]

\* except Exception: return {"ok": True, "order_id": "demo123", ...}
checkout_fallback ==
    [kind |-> "checkout", ok |-> TRUE, order_id |-> DemoId,
     client_secret |-> ClientSecret(DemoId)]

\* Mutant: the log entry refers to the buyer instead of the order.
sale_log_WrongRelated(order, order_id) ==
    [category |-> "sale", actor |-> Some(order.user_email),
     related_id |-> Some(DemoId)]

\* Log(category='sale', actor=order.user_email, related_id=str(order_id))
sale_log(order, order_id) ==
    [category |-> "sale", actor |-> Some(order.user_email),
     related_id |-> Some(order_id)]

\* Mutant: the log write is not guarded by its own try, so its failure reaches
\* the outer except.
checkout_after_log_Unguarded(order_id, logOk) ==
    IF logOk
    THEN [kind |-> "checkout", ok |-> TRUE, order_id |-> order_id,
          client_secret |-> ClientSecret(order_id)]
    ELSE checkout_fallback

\* try: create_document('log', ...) except Exception: pass; return {...}
checkout_after_log(order_id, logOk) ==
    [kind |-> "checkout", ok |-> TRUE, order_id |-> order_id,
     client_secret |-> ClientSecret(order_id)]

\* POST /api/checkout.  orderOk, logOk: whether the storage collaborator
\* accepts the write of the Order, of the Log.
checkout(payload, orderOk, logOk) ==
    LET summary == order_preview(payload)
        order == [user_email |-> OrDefault(payload.user_email, "guest@example.com"),
                  items |-> payload.items,
                  subtotal |-> summary.subtotal,
                  discount |-> summary.discount,
                  tax |-> summary.tax,
                  total |-> summary.total,
                  status |-> "pending",
                  payment_method |-> OrDefault(payload.payment_method, "manual")]
        order_id == ObjectId(nextId)
    IN  /\ req' = [kind |-> "checkout", body |-> payload]
        /\ UNCHANGED <<withdrawals, disp>>
        /\ IF ~OrderValid(order)
           THEN /\ resp' = checkout_fallback
                /\ io' = [primary |-> "none", log |-> "none"]
                /\ UNCHANGED <<orders, logs, nextId>>
           ELSE IF ~orderOk
           THEN /\ resp' = checkout_fallback
                /\ io' = [primary |-> "failed", log |-> "none"]
                /\ UNCHANGED <<orders, logs, nextId>>
           ELSE /\ orders' = create_document(orders, order, order_id)
                /\ resp' = checkout_after_log(order_id, logOk)
                /\ IF logOk
                   THEN /\ logs' = create_document(logs, sale_log(order, order_id),
                                                   ObjectId(nextId + 1))
                        /\ nextId' = nextId + 2
                        /\ io' = [primary |-> "ok", log |-> "ok"]
                   ELSE /\ nextId' = nextId + 1
                        /\ io' = [primary |-> "ok", log |-> "failed"]
                        /\ UNCHANGED logs

----------------------------------------------------------------------------
(* Payment *)

\* Mutant: the payment marks the order it names as paid.
pay_orders_MarksPaid(order_id) ==
    [i \in DOMAIN orders |->
        IF orders[i].id = order_id THEN [orders[i] EXCEPT !.status = "paid"]
        ELSE orders[i]]

\* "In real impl, verify and update DB": the stub updates nothing.
pay_orders(order_id) == orders

\* POST /api/payment
pay(payload, logOk) ==
    /\ req' = [kind |-> "payment", body |-> payload]
    /\ orders' = pay_orders(payload.order_id)
    /\ IF logOk
       THEN /\ logs' = create_document(logs,
                          [category |-> "payment", actor |-> Some("system"),
                           related_id |-> Some(payload.order_id)],
                          ObjectId(nextId))
            /\ nextId' = nextId + 1
            /\ io' = [primary |-> "none", log |-> "ok"]
       ELSE /\ io' = [primary |-> "none", log |-> "failed"]
            /\ UNCHANGED <<logs, nextId>>
    /\ resp' = [kind |-> "payment", ok |-> TRUE, status |-> "success",
                order_id |-> payload.order_id]
    /\ UNCHANGED <<withdrawals, disp>>

----------------------------------------------------------------------------
(* Withdrawals *)

\* status = 'requested'; note = None; scheduled_date = None
InitialDisposition == [status |-> "requested", note |-> None, scheduled_date |-> None]

\* Mutant: the ladder has no else branch.
Disposition_NoElse(role, amount, now) ==
    IF role = "reseller"
    THEN [status |-> "scheduled", note |-> Some("Reseller T+5 payout scheduled"),
          scheduled_date |-> Some(now + PayoutDays)]
    ELSE IF role = "high_admin"
    THEN [status |-> "paid", note |-> Some("High admin instant payout"),
          scheduled_date |-> None]
    ELSE InitialDisposition

\* The if / elif / else ladder of create_withdrawal.  Time is counted in days.
Disposition(role, amount, now) ==
    IF role = "reseller"
    THEN [status |-> "scheduled", note |-> Some("Reseller T+5 payout scheduled"),
          scheduled_date |-> Some(now + PayoutDays)]
    ELSE IF role = "high_admin"
    THEN [status |-> "paid", note |-> Some("High admin instant payout"),
          scheduled_date |-> None]
    ELSE [status |-> "approved", note |-> Some("Approved by policy"),
          scheduled_date |-> None]

\* POST /api/withdrawals.  now: datetime.utcnow(); wOk, logOk: whether the
\* storage collaborator accepts the write of the Withdrawal, of the Log.
create_withdrawal(body, now, wOk, logOk) ==
    LET d == Disposition(body.role, body.amount, now)
        w == [actor_email |-> body.actor_email, amount |-> body.amount,
              role |-> body.role, status |-> d.status, note |-> d.note,
              scheduled_date |-> d.scheduled_date]
        wid == ObjectId(nextId)
    IN  /\ req' = [kind |-> "withdrawal", body |-> body, now |-> now]
        /\ disp' = d
        /\ UNCHANGED orders
        /\ IF ~WithdrawalValid(w)
           THEN /\ resp' = [kind |-> "http_error", status_code |-> 400]
                /\ io' = [primary |-> "none", log |-> "none"]
                /\ UNCHANGED <<withdrawals, logs, nextId>>
           ELSE IF ~wOk
           THEN /\ resp' = [kind |-> "http_error", status_code |-> 400]
                /\ io' = [primary |-> "failed", log |-> "none"]
                /\ UNCHANGED <<withdrawals, logs, nextId>>
           ELSE /\ withdrawals' = create_document(withdrawals, w, wid)
                /\ resp' = [kind |-> "withdrawal", ok |-> TRUE, id |-> wid,
                            status |-> d.status, scheduled_date |-> d.scheduled_date]
                /\ IF logOk
                   THEN /\ logs' = create_document(logs,
                                      [category |-> "withdrawal",
                                       actor |-> Some(body.actor_email),
                                       related_id |-> Some(wid)],
                                      ObjectId(nextId + 1))
                        /\ nextId' = nextId + 2
                        /\ io' = [primary |-> "ok", log |-> "ok"]
                   ELSE /\ nextId' = nextId + 1
                        /\ io' = [primary |-> "ok", log |-> "failed"]
                        /\ UNCHANGED logs

----------------------------------------------------------------------------
(* Requests *)

Item(sku, qty, unit_price) ==
    [sku |-> sku, title |-> sku, qty |-> qty, unit_price |-> unit_price]

\* The products a line item is drawn from: sku and unit price (0, 3.99, 100).
Catalog == {<<"FREE-0", 0>>, <<"VPS-1", 39900>>, <<"SRV-100", 1000000>>}

ItemPool == {Item(c[1], q, c[2]) : c \in Catalog, q \in 1..MaxQty}

\* Discounts 0, 0.005, 1.234 and 150; tax rates -2, -1, 0 and 0.1.
Discounts == {0, 50, 12340, 1500000}
TaxRates == {-20, -10, 0, 1}

CartPayload(items, discount, tax_rate) ==
    [items |-> items, discount |-> discount, tax_rate |-> tax_rate]

CheckoutPayload(cart, user_email, payment_method) ==
    cart @@ [user_email |-> user_email, payment_method |-> payment_method]

\* The CartPayload part of a request body.
CartOf(body) == CartPayload(body.items, body.discount, body.tax_rate)

\* Every cart of at most MaxItems line items, with every discount and tax rate.
PricingCarts ==
    {CartPayload(items, d, t) :
        items \in UNION {[1..n -> ItemPool] : n \in 0..MaxItems},
        d \in Discounts, t \in TaxRates}

\* The carts of the request sequences: the empty cart, and one item of 100
\* with no discount or with a discount of 150, at the default tax rate.
WorkflowCarts ==
    {CartPayload(<<>>, 0, 1),
     CartPayload(<<Item("SRV-100", 1, 1000000)>>, 0, 1),
     CartPayload(<<Item("SRV-100", 1, 1000000)>>, 1500000, 1)}

\* The buyers of a checkout, as user_email and payment_method: a guest, a
\* named buyer paying by paypal, a malformed address, an unknown method.
Guest == <<None, None>>
Buyers ==
    {Guest, <<Some("buyer@site.com"), Some("paypal")>>,
     <<Some("not-an-email"), None>>, <<None, Some("bitcoin")>>}

\* Order ids a payment request may name: those handed out, and the placeholder.
PayableIds == {orders[i].id : i \in DOMAIN orders} \cup {DemoId}

WithdrawRequest(actor_email, amount, role) ==
    [actor_email |-> actor_email, amount |-> amount, role |-> role]

\* Amounts 50 and 1234.56; "superuser" is no Role; one request carries a
\* malformed address.
WithdrawRequests ==
    {WithdrawRequest("reseller@site.com", a, r) :
        a \in {500000, 12345600},
        r \in {"reseller", "high_admin", "buyer", "superuser"}}
    \cup {WithdrawRequest("not-an-email", 500000, "buyer")}

\* Request times, in days.
Times == {0, 30}

----------------------------------------------------------------------------
(* Specifications *)

Init ==
    /\ orders = <<>>
    /\ withdrawals = <<>>
    /\ logs = <<>>
    /\ nextId = 1
    /\ req = [kind |-> "none"]
    /\ io = [primary |-> "none", log |-> "none"]
    /\ disp = InitialDisposition
    /\ resp = [kind |-> "none"]

Next ==
    \/ \E c \in WorkflowCarts : PostOrderPreview(c)
    \/ /\ StoredCount < MaxWrites
       /\ \E c \in WorkflowCarts, b \in Buyers,
             orderOk \in BOOLEAN, logOk \in BOOLEAN :
             checkout(CheckoutPayload(c, b[1], b[2]), orderOk, logOk)
    \/ /\ StoredCount < MaxWrites
       /\ \E id \in PayableIds, logOk \in BOOLEAN :
             pay([order_id |-> id, method |-> "paypal"], logOk)
    \/ /\ StoredCount < MaxWrites
       /\ \E b \in WithdrawRequests, now \in Times,
             wOk \in BOOLEAN, logOk \in BOOLEAN :
             create_withdrawal(b, now, wOk, logOk)

\* Any sequence of requests, each storage write succeeding or failing.
Spec == Init /\ [][Next]_vars

\* One cart, drawn from PricingCarts, waits to be priced.
PricingInit ==
    /\ orders = <<>>
    /\ withdrawals = <<>>
    /\ logs = <<>>
    /\ nextId = 1
    /\ req \in {[kind |-> "pending", body |-> c] : c \in PricingCarts}
    /\ io = [primary |-> "none", log |-> "none"]
    /\ disp = InitialDisposition
    /\ resp = [kind |-> "none"]

PricingNext ==
    \/ PostOrderPreview(CartOf(req.body))
    \/ /\ StoredCount < MaxWrites
       /\ \E orderOk \in BOOLEAN, logOk \in BOOLEAN :
             checkout(CheckoutPayload(CartOf(req.body), Guest[1], Guest[2]),
                      orderOk, logOk)

\* The cart is previewed and checked out, in any order, any number of times.
PricingSpec == PricingInit /\ [][PricingNext]_vars

----------------------------------------------------------------------------
(* Properties of the pricing, checked under PricingSpec *)

\* The full-precision values order_preview computes for the request's cart.
ExactSubtotal == Subtotal(req.body.items)
ExactTax == ((ExactSubtotal - req.body.discount) * req.body.tax_rate) \div 10
ExactUnclamped == ExactSubtotal - req.body.discount + ExactTax

\* C1: the total returned by order preview, and the total stored on every
\* Order that checkout persisted, is at least 0, whatever the cart, the
\* discount and the tax rate.
C1_TotalNonNegative ==
    /\ resp.kind = "preview" => resp.total >= 0
    /\ \A i \in DOMAIN orders : orders[i].total >= 0

\* C1 witness: a cart whose unclamped total is negative was checked out and
\* then previewed; the stored and the returned total are both 0.
C1_Witness ==
    /\ resp.kind = "preview"
    /\ ExactUnclamped < 0
    /\ resp.total = 0
    /\ orders # <<>>
    /\ orders[1].discount > orders[1].subtotal
    /\ orders[1].total = 0

\* C2, as stated: whenever the discount exceeds the cart's subtotal, order
\* preview returns a total of 0, whatever the tax rate.
C2_Original_DiscountOvershootGivesZero ==
    (resp.kind = "preview" /\ req.body.discount > ExactSubtotal)
        => resp.total = 0

\* C2, amended: whenever the discount exceeds the cart's subtotal and the
\* tax rate is at least -1, order preview returns a total of 0.
C2_DiscountOvershootGivesZero ==
    (/\ resp.kind = "preview"
     /\ req.body.discount > ExactSubtotal
     /\ req.body.tax_rate >= -10)
        => resp.total = 0

\* C2 witness: a non-empty cart previewed with a discount above its subtotal
\* at a positive tax rate: the tax is negative and the total is 0.
C2_Witness ==
    /\ resp.kind = "preview"
    /\ ExactSubtotal > 0
    /\ req.body.discount > ExactSubtotal
    /\ req.body.tax_rate > 0
    /\ resp.tax < 0
    /\ resp.total = 0

Abs(x) == IF x >= 0 THEN x ELSE -x

\* y is x rounded to 2 decimals: a whole number of hundredths, at most half
\* a hundredth from x.
IsRoundedTo2(y, x) == y % 100 = 0 /\ 2 * Abs(y - x) <= 100

\* C8: each of the four fields order preview returns is the 2-decimal
\* rounding of its full-precision value: the subtotal, the supplied
\* discount, (subtotal - discount) * tax_rate, and the clamped total.
C8_AllFieldsRounded ==
    resp.kind = "preview" =>
        /\ IsRoundedTo2(resp.subtotal, ExactSubtotal)
        /\ IsRoundedTo2(resp.discount, req.body.discount)
        /\ IsRoundedTo2(resp.tax, ExactTax)
        /\ IsRoundedTo2(resp.total, IF ExactUnclamped >= 0 THEN ExactUnclamped ELSE 0)

----------------------------------------------------------------------------
(* Properties of the request handlers, checked under Spec *)

\* C3: a withdrawal request whose role is neither 'reseller' nor
\* 'high_admin', recognized or not, is not refused for its role: unless the
\* storage rejects the write, a Withdrawal is persisted and the response's
\* status is 'approved'.
C3_OtherRolesApproved ==
    (/\ req.kind = "withdrawal"
     /\ req.body.role \notin {"reseller", "high_admin"}
     /\ ValidEmail(req.body.actor_email)
     /\ io.primary # "failed")
        => /\ resp.kind = "withdrawal"
           /\ resp.status = "approved"
           /\ \E i \in DOMAIN withdrawals :
                 /\ withdrawals[i].id = resp.id
                 /\ withdrawals[i].role = req.body.role
                 /\ withdrawals[i].status = "approved"

\* C4: the disposition computed for a withdrawal request is the policy
\* table's row for its role: reseller is scheduled at the request time plus
\* 5 days, high_admin is paid, every other role is approved; the amount
\* plays no part, 'requested' is never the outcome, and a success response
\* carries the computed status and date.
C4_PolicyTable ==
    req.kind = "withdrawal" =>
        /\ disp = CASE req.body.role = "reseller" ->
                         [status |-> "scheduled",
                          note |-> <<"Reseller T+5 payout scheduled">>,
                          scheduled_date |-> <<req.now + 5>>]
                    [] req.body.role = "high_admin" ->
                         [status |-> "paid",
                          note |-> <<"High admin instant payout">>,
                          scheduled_date |-> <<>>]
                    [] OTHER ->
                         [status |-> "approved",
                          note |-> <<"Approved by policy">>,
                          scheduled_date |-> <<>>]
        /\ disp.status # "requested"
        /\ resp.kind = "withdrawal" =>
              /\ resp.status = disp.status
              /\ resp.scheduled_date = disp.scheduled_date

\* C4 witness: a reseller's request made on day 30 was answered: scheduled
\* for day 35.
C4_Witness ==
    /\ req.kind = "withdrawal"
    /\ req.body.role = "reseller"
    /\ req.now = 30
    /\ resp.kind = "withdrawal"
    /\ resp.status = "scheduled"
    /\ resp.scheduled_date = <<35>>

\* C5: when the storage rejects the write of the Order, checkout answers
\* with the success response carrying the placeholder order id, not with an
\* error.
C5_CheckoutSurvivesStorageFailure ==
    (req.kind = "checkout" /\ io.primary = "failed")
        => /\ resp.kind = "checkout"
           /\ resp.ok
           /\ resp.order_id = <<"demo", 123>>
           /\ resp.client_secret = <<"demo_", <<"demo", 123>>>>

\* C5 witness: a checkout of a valid order whose write the storage rejected.
C5_Witness ==
    /\ req.kind = "checkout"
    /\ io.primary = "failed"
    /\ resp.kind = "checkout"
    /\ resp.order_id = DemoId
    /\ orders = <<>>

LastOf(collection) == collection[Len(collection)]

\* C6: when the log write fails after the primary record was persisted,
\* checkout and withdrawal creation answer with the success response
\* carrying the persisted record's id, and the record is kept; a payment,
\* which persists nothing else, answers success all the same.
C6_LogFailureIsHarmless ==
    io.log = "failed" =>
        CASE req.kind = "checkout" ->
                 /\ io.primary = "ok"
                 /\ orders # <<>>
                 /\ resp = [kind |-> "checkout", ok |-> TRUE,
                            order_id |-> LastOf(orders).id,
                            client_secret |-> <<"demo_", LastOf(orders).id>>]
                 /\ LastOf(orders).id # <<"demo", 123>>
          [] req.kind = "withdrawal" ->
                 /\ io.primary = "ok"
                 /\ withdrawals # <<>>
                 /\ resp = [kind |-> "withdrawal", ok |-> TRUE,
                            id |-> LastOf(withdrawals).id,
                            status |-> LastOf(withdrawals).status,
                            scheduled_date |-> LastOf(withdrawals).scheduled_date]
          [] req.kind = "payment" ->
                 resp = [kind |-> "payment", ok |-> TRUE, status |-> "success",
                         order_id |-> req.body.order_id]
          [] OTHER -> FALSE

\* C6 witness: a checkout persisted its order, the log write failed, and the
\* response carries the order's id.
C6_Witness ==
    /\ req.kind = "checkout"
    /\ io.primary = "ok"
    /\ io.log = "failed"
    /\ Len(orders) = 1
    /\ logs = <<>>
    /\ resp.order_id = orders[1].id

\* C7: the withdrawal endpoint answers with an error only when the storage
\* rejects the write of the Withdrawal; otherwise it answers with the
\* success response.
C7_ErrorOnlyOnStorageRejection ==
    (req.kind = "withdrawal" /\ io.primary # "failed")
        => resp.kind = "withdrawal" /\ resp.ok

\* C9: every persisted Order has status 'pending', after any sequence of
\* checkout and payment requests.
C9_OrdersStayPending ==
    \A i \in DOMAIN orders : orders[i].status = "pending"

\* C9 witness: a payment naming a persisted order was answered and logged,
\* and the order is still pending.
C9_Witness ==
    /\ req.kind = "payment"
    /\ io.log = "ok"
    /\ \E i \in DOMAIN orders :
          /\ orders[i].id = req.body.order_id
          /\ orders[i].status = "pending"
    /\ LastOf(logs).related_id = <<req.body.order_id>>

\* C10: every stored log entry of category 'sale' names the id of a
\* persisted Order, and every one of category 'withdrawal' the id of a
\* persisted Withdrawal; no two such entries name the same record, so a
\* request whose primary write failed left no entry.
C10_LogsNamePersistedRecords ==
    /\ \A k \in DOMAIN logs :
          /\ logs[k].category = "sale" =>
                \E i \in DOMAIN orders : logs[k].related_id = <<orders[i].id>>
          /\ logs[k].category = "withdrawal" =>
                \E i \in DOMAIN withdrawals :
                    logs[k].related_id = <<withdrawals[i].id>>
    /\ \A k, m \in DOMAIN logs :
          (/\ k # m
           /\ logs[k].category \in {"sale", "withdrawal"}
           /\ logs[m].category \in {"sale", "withdrawal"})
              => logs[k].related_id # logs[m].related_id

\* C10 witness: a checkout stored an order and the sale entry naming it.
C10_Witness ==
    /\ req.kind = "checkout"
    /\ Len(orders) = 1
    /\ Len(logs) = 1
    /\ logs[1].category = "sale"
    /\ logs[1].related_id = <<orders[1].id>>

=============================================================================
